---- MODULE Spec2Model ----
(***************************************************************************)
(* A model of the OpenPlatform client of ddb-react (src/unnamed/part_000). *)
(*                                                                         *)
(* Strings are sequences of one-character strings, so that building a URL  *)
(* (concatenation, percent-encoding, joining) and reading it back are      *)
(* different computations.  JavaScript values are tagged records.          *)
(* HTTP requests are kept in issue order in `sent`, the replies of the     *)
(* upstream service in `reply`, and the order the replies arrived in       *)
(* `arrived`.  One call of the client is modelled at a time: the client    *)
(* keeps no state between calls.                                           *)
(*                                                                         *)
(* The ChecklistEntry component of the same file is modelled beside it,    *)
(* under a specification of its own (SpecChecklist).                       *)
(***************************************************************************)
EXTENDS Integers, Sequences, FiniteSets, TLC

VARIABLES call, sent, reply, arrived, result

\* ChecklistEntry: its two pieces of state, the list getList gave it, the
\* onRemove calls made so far and the onRestore timers waiting to fire
VARIABLES list, loading, loaded, removals, timers

client == <<call, sent, reply, arrived, result>>

checklist == <<list, loading, loaded, removals, timers>>

vars == <<call, sent, reply, arrived, result, list, loading, loaded, removals, timers>>

(***************************************************************************)
(* Bounds of the model.                                                    *)
(***************************************************************************)
\* the longest pid list given to getWork
MaxPids == 41
\* the longest list given to formatUrlArray
MaxItems == 2
\* the longest item given to formatUrlArray
MaxItemLen == 2
\* the longest orderParameters list of a branch
MaxOrderParams == 2
\* the longest availability list the upstream returns
MaxAvail == 2
\* the longest list getList returns to ChecklistEntry
MaxListItems == 3
\* the most onRemove calls on one ChecklistEntry
MaxRemoves == 3

(***************************************************************************)
(* Strings.                                                                *)
(***************************************************************************)
RECURSIVE Flatten(_)
Flatten(ss) == IF ss = <<>> THEN <<>> ELSE Head(ss) \o Flatten(Tail(ss))

Lower == {"a","b","c","d","e","f","g","h","i","j","k","l","m",
          "n","o","p","q","r","s","t","u","v","w","x","y","z"}

Upper == {"A","B","C","D","E","F","G","H","I","J","K","L","M",
          "N","O","P","Q","R","S","T","U","V","W","X","Y","Z"}

Digit == {"0","1","2","3","4","5","6","7","8","9"}

\* the characters encodeURIComponent leaves alone
Unreserved == Lower \cup Upper \cup Digit \cup {"-","_",".","!","~","*","'","(",")"}

\* the two hexadecimal digits of the (ASCII) characters the model uses
HexOf(c) ==
  CASE c = " "  -> <<"2","0">>
    [] c = "\"" -> <<"2","2">>
    [] c = "#"  -> <<"2","3">>
    [] c = "%"  -> <<"2","5">>
    [] c = "&"  -> <<"2","6">>
    [] c = "+"  -> <<"2","B">>
    [] c = ","  -> <<"2","C">>
    [] c = "/"  -> <<"2","F">>
    [] c = ":"  -> <<"3","A">>
    [] c = "="  -> <<"3","D">>
    [] c = "?"  -> <<"3","F">>
    [] c = "@"  -> <<"4","0">>

EncodeChar(c) == IF c \in Unreserved THEN <<c>> ELSE <<"%">> \o HexOf(c)

encodeURIComponent(s) == Flatten([i \in 1..Len(s) |-> EncodeChar(s[i])])

\* Array.prototype.join
join(xs, sep) ==
  IF xs = <<>> THEN <<>>
  ELSE xs[1] \o Flatten([i \in 1..(Len(xs) - 1) |-> sep \o xs[i + 1]])

formatUrlArray_NoTrailingComma(items) ==
  join([i \in 1..Len(items) |-> encodeURIComponent(items[i])], <<",">>)

formatUrlArray(items) ==
  join([i \in 1..Len(items) |-> encodeURIComponent(items[i])], <<",">>) \o <<",">>

(***************************************************************************)
(* JavaScript values.                                                      *)
(***************************************************************************)
Undefined == [t |-> "undefined"]

Null == [t |-> "null"]

Bool(b) == [t |-> "boolean", v |-> b]

Num(n) == [t |-> "number", v |-> n]

Str(s) == [t |-> "string", v |-> s]

Arr(xs) == [t |-> "array", v |-> xs]

\* an object is the sequence of its <<key, value>> entries
Obj(es) == [t |-> "object", v |-> es]

Truthy(x) ==
  CASE x.t = "undefined" -> FALSE
    [] x.t = "null"      -> FALSE
    [] x.t = "boolean"   -> x.v
    [] x.t = "number"    -> x.v # 0
    [] x.t = "string"    -> x.v # <<>>
    [] OTHER             -> TRUE

HasKey(o, k) == o.t = "object" /\ \E i \in 1..Len(o.v) : o.v[i][1] = k

\* o.k: the property, undefined when the object has none of that name
Get(o, k) ==
  IF HasKey(o, k)
  THEN o.v[CHOOSE i \in 1..Len(o.v) : o.v[i][1] = k][2]
  ELSE Undefined

\* o.k = x: replaces the entry in place or appends one
Set(o, k, x) ==
  IF HasKey(o, k)
  THEN Obj([i \in 1..Len(o.v) |-> IF o.v[i][1] = k THEN <<k, x>> ELSE o.v[i]])
  ELSE Obj(Append(o.v, <<k, x>>))

RECURSIVE DigitsOf(_)
DigitsOf(n) ==
  LET d == <<"0","1","2","3","4","5","6","7","8","9">>[(n % 10) + 1]
  IN IF n < 10 THEN <<d>> ELSE DigitsOf(n \div 10) \o <<d>>

\* `${x}`: the string a template literal makes of a value
TemplateString(x) ==
  CASE x.t = "undefined" -> <<"u","n","d","e","f","i","n","e","d">>
    [] x.t = "null"      -> <<"n","u","l","l">>
    [] x.t = "boolean"   -> IF x.v THEN <<"t","r","u","e">> ELSE <<"f","a","l","s","e">>
    [] x.t = "number"    -> DigitsOf(x.v)
    [] x.t = "string"    -> x.v

\* lodash isEmpty: no own keys, no elements, or not a collection at all
isEmpty(x) ==
  CASE x.t = "object" -> x.v = <<>>
    [] x.t = "array"  -> x.v = <<>>
    [] x.t = "string" -> x.v = <<>>
    [] OTHER          -> TRUE

(***************************************************************************)
(* Errors and promises.                                                    *)
(***************************************************************************)
\* Error(x): the message is "" for undefined and the string of x otherwise
Error(x) ==
  [name |-> "Error", message |-> IF x.t = "undefined" THEN <<>> ELSE TemplateString(x)]

TypeError == [name |-> "TypeError", message |-> <<"t","y","p","e">>]

\* what fetch rejects with when the transport fails
NetworkError == [name |-> "TypeError", message |-> <<"n","e","t">>]

\* what rawResponse.json() rejects with when the payload is not JSON
SyntaxError == [name |-> "SyntaxError", message |-> <<"j","s","o","n">>]

DataNotFound == <<"d","a","t","a"," ","n","o","t"," ","f","o","u","n","d">>

BranchNotFound == <<"b","r","a","n","c","h"," ","n","o","t"," ","f","o","u","n","d">>

Pending == [st |-> "pending"]

Fulfilled(x) == [st |-> "fulfilled", value |-> x]

Rejected(e) == [st |-> "rejected", reason |-> e]

\* a synchronous function's return value
Returned(x) == [st |-> "returned", value |-> x]

\* Promise.all over promises ps, whose settlements became known in the order
\* `order` (indices of ps): rejected with the first rejection to arrive,
\* fulfilled with all the values in the order of ps once all are fulfilled
PromiseAll_ArrivalOrder(ps, order) ==
  LET bad == {j \in 1..Len(order) : ps[order[j]].st = "rejected"}
  IN IF bad # {}
     THEN Rejected(ps[order[CHOOSE j \in bad : \A k \in bad : j <= k]].reason)
     ELSE IF \A i \in 1..Len(ps) : ps[i].st = "fulfilled"
          THEN Fulfilled(Arr([j \in 1..Len(order) |-> ps[order[j]].value]))
          ELSE Pending

PromiseAll(ps, order) ==
  LET bad == {j \in 1..Len(order) : ps[order[j]].st = "rejected"}
  IN IF bad # {}
     THEN Rejected(ps[order[CHOOSE j \in bad : \A k \in bad : j <= k]].reason)
     ELSE IF \A i \in 1..Len(ps) : ps[i].st = "fulfilled"
          THEN Fulfilled(Arr([i \in 1..Len(ps) |-> ps[i].value]))
          ELSE Pending

(***************************************************************************)
(* HTTP: what fetch is given, and what the upstream answers.               *)
(***************************************************************************)
baseUrl ==
  <<"h","t","t","p","s",":","/","/","o","p","e","n","p","l","a","t","f","o","r","m",
    ".","d","b","c",".","d","k","/","v","3">>

\* getToken(audience), of ./token
getToken(audience) == IF audience = "user" THEN <<"U","T">> ELSE <<"L","T">>

defaults == [method |-> "GET", headers |-> {<<"Accept", "application/json">>}, body |-> Undefined]

\* the fetch call of request(path, options)
fetch(path, options) ==
  [url     |-> baseUrl \o <<"/">> \o path,
   method  |-> options.method,
   headers |-> options.headers,
   body    |-> options.body]

NoReply == [kind |-> "none"]

NetworkFailure == [kind |-> "network"]

Malformed == [kind |-> "malformed"]

Json(env) == [kind |-> "json", env |-> env]

\* a response envelope: statusCode, error and data, each possibly absent
Envelope(statusCode, error, data) ==
  Obj(Flatten(<<IF statusCode = Undefined THEN <<>> ELSE << <<"statusCode", statusCode>> >>,
                IF error = Undefined THEN <<>> ELSE << <<"error", error>> >>,
                IF data = Undefined THEN <<>> ELSE << <<"data", data>> >> >>))

\* request(): the promise it returns once the upstream's reply r is in
request_ErrorBeforeStatus(r) ==
  CASE r.kind = "none"      -> Pending
    [] r.kind = "network"   -> Rejected(NetworkError)
    [] r.kind = "malformed" -> Rejected(SyntaxError)
    [] r.kind = "json"      ->
         IF ~Truthy(Get(r.env, "data")) THEN Rejected(Error(Str(DataNotFound)))
         ELSE IF Get(r.env, "statusCode") # Num(200)
         THEN Rejected(Error(Get(r.env, "error")))
         ELSE Fulfilled(Get(r.env, "data"))

request(r) ==
  CASE r.kind = "none"      -> Pending
    [] r.kind = "network"   -> Rejected(NetworkError)
    [] r.kind = "malformed" -> Rejected(SyntaxError)
    [] r.kind = "json"      ->
         IF Get(r.env, "statusCode") # Num(200)
         THEN Rejected(Error(Get(r.env, "error")))
         ELSE IF ~Truthy(Get(r.env, "data")) THEN Rejected(Error(Str(DataNotFound)))
         ELSE Fulfilled(Get(r.env, "data"))

NotFound == <<"n","o","t"," ","f","o","u","n","d">>

\* the envelopes' parts the upstream may send
StatusCodes == {Undefined, Num(200), Num(404)}

ErrorFields == {Undefined, Str(NotFound)}

Title(s) == Obj(<< <<"title", Str(s)>> >>)

DataValues ==
  {Undefined, Null, Bool(FALSE), Bool(TRUE), Num(0), Num(1), Str(<<>>), Str(<<"x">>),
   Arr(<<>>), Arr(<<Title(<<"A">>)>>), Obj(<<>>), Title(<<"A">>)}

AnyReply ==
  {NetworkFailure, Malformed} \cup
  {Json(Envelope(s, e, d)) : s \in StatusCodes, e \in ErrorFields, d \in DataValues}

\* the failures every endpoint can answer with
FailureReplies ==
  {NetworkFailure,
   Json(Envelope(Num(404), Str(NotFound), Undefined)),
   Json(Envelope(Num(200), Undefined, Undefined))}

Ok(data) == Json(Envelope(Num(200), Undefined, data))

(***************************************************************************)
(* The upstream's reading of a URL: the query string split at "&" and "=", *)
(* percent-decoding, and a list parameter split at its commas.             *)
(***************************************************************************)
Reserved == {" ", "\"", "#", "%", "&", "+", ",", "/", ":", "=", "?", "@"}

FirstIndex(s, c) ==
  IF \E i \in 1..Len(s) : s[i] = c
  THEN CHOOSE i \in 1..Len(s) : s[i] = c /\ \A j \in 1..(i - 1) : s[j] # c
  ELSE 0

RECURSIVE Split(_, _)
Split(s, c) ==
  LET i == FirstIndex(s, c)
  IN IF i = 0 THEN <<s>>
     ELSE <<SubSeq(s, 1, i - 1)>> \o Split(SubSeq(s, i + 1, Len(s)), c)

RECURSIVE decodeURIComponent(_)
decodeURIComponent(s) ==
  IF s = <<>> THEN <<>>
  ELSE IF s[1] = "%" /\ Len(s) >= 3 /\ \E c \in Reserved : HexOf(c) = <<s[2], s[3]>>
       THEN <<CHOOSE c \in Reserved : HexOf(c) = <<s[2], s[3]>>>>
            \o decodeURIComponent(SubSeq(s, 4, Len(s)))
       ELSE <<s[1]>> \o decodeURIComponent(Tail(s))

\* the text after the first "?"
QueryOf(url) ==
  LET i == FirstIndex(url, "?")
  IN IF i = 0 THEN <<>> ELSE SubSeq(url, i + 1, Len(url))

\* the <<key, raw value>> pairs of the query string, in order
ParamsOf(url) ==
  LET parts == SelectSeq(Split(QueryOf(url), "&"), LAMBDA p : p # <<>>)
  IN [i \in 1..Len(parts) |->
       LET e == FirstIndex(parts[i], "=")
       IN IF e = 0 THEN <<parts[i], <<>>>>
          ELSE <<SubSeq(parts[i], 1, e - 1), SubSeq(parts[i], e + 1, Len(parts[i]))>>]

HasParam(url, key) == \E i \in 1..Len(ParamsOf(url)) : ParamsOf(url)[i][1] = key

\* the raw value of the first parameter of that name
ParamOf(url, key) ==
  LET ps == ParamsOf(url)
  IN ps[CHOOSE i \in 1..Len(ps) : ps[i][1] = key /\ \A j \in 1..(i - 1) : ps[j][1] # key][2]

\* a list parameter: the decoded items between its commas
ListOf(raw) ==
  LET parts == SelectSeq(Split(raw, ","), LAMBDA p : p # <<>>)
  IN [i \in 1..Len(parts) |-> decodeURIComponent(parts[i])]

(***************************************************************************)
(* The state machine.                                                      *)
(***************************************************************************)
Idle == [fn |-> "idle"]

Init ==
  /\ call = Idle
  /\ sent = <<>>
  /\ reply = <<>>
  /\ arrived = <<>>
  /\ result = Pending
  /\ list = <<>>
  /\ loading = "inactive"
  /\ loaded = <<>>
  /\ removals = <<>>
  /\ timers = <<>>

AllReplied == \A i \in 1..Len(reply) : reply[i] # NoReply

\* the call is over (settled, and nothing of it is in flight): the next begins
Reset ==
  /\ call # Idle
  /\ result.st # "pending"
  /\ AllReplied
  /\ call' = Idle
  /\ sent' = <<>>
  /\ reply' = <<>>
  /\ arrived' = <<>>
  /\ result' = Pending
  /\ UNCHANGED checklist

\* the upstream answers request i with r
Answer(i, r) ==
  /\ i \in 1..Len(sent)
  /\ reply[i] = NoReply
  /\ reply' = [reply EXCEPT ![i] = r]
  /\ arrived' = Append(arrived, i)
  /\ UNCHANGED sent

Issue(reqs) ==
  /\ sent' = reqs
  /\ reply' = [i \in 1..Len(reqs) |-> NoReply]
  /\ arrived' = <<>>

\* ---- formatUrlArray ----
ItemChars == {"a", ",", ":"}

RECURSIVE SeqsUpTo(_, _)
SeqsUpTo(S, n) ==
  IF n = 0 THEN {<<>>}
  ELSE LET shorter == SeqsUpTo(S, n - 1)
       IN shorter \cup {Append(s, x) : s \in {t \in shorter : Len(t) = n - 1}, x \in S}

Items == SeqsUpTo(ItemChars, MaxItemLen)

formatUrlArrayCall ==
  /\ call = Idle
  /\ \E items \in SeqsUpTo(Items, MaxItems) :
       /\ call' = [fn |-> "formatUrlArray", items |-> items]
       /\ result' = Returned(Str(formatUrlArray(items)))
  /\ UNCHANGED <<sent, reply, arrived>>
  /\ UNCHANGED checklist

\* ---- request ----
Paths == {<<"u","s","e","r">>, <<"w","o","r","k">>}

requestCall ==
  /\ call = Idle
  /\ \E path \in Paths :
       /\ call' = [fn |-> "request", path |-> path]
       /\ Issue(<<fetch(path, defaults)>>)
  /\ result' = Pending
  /\ UNCHANGED checklist

requestReply ==
  /\ call.fn = "request"
  /\ \E r \in AnyReply :
       /\ Answer(1, r)
       /\ result' = request(r)
  /\ UNCHANGED call
  /\ UNCHANGED checklist

\* ---- getWork ----
pidLimit == 20

\* lodash chunk
chunk(xs, size) ==
  [k \in 1..((Len(xs) + size - 1) \div size) |->
     SubSeq(xs, (k - 1) * size + 1, IF k * size < Len(xs) THEN k * size ELSE Len(xs))]

workPath(pids, fields) ==
  <<"w","o","r","k","?","a","c","c","e","s","s","_","t","o","k","e","n","=">>
  \o getToken("library")
  \o <<"&","f","i","e","l","d","s","=">>
  \o join([i \in 1..Len(fields) |-> encodeURIComponent(fields[i])], <<",">>)
  \o <<"&","p","i","d","s","=">>
  \o formatUrlArray(pids)

\* the requests a getWork call issues before it first waits
getWorkRequests(pids, fields) ==
  IF Len(pids) > pidLimit
  THEN LET cs == chunk(pids, pidLimit)
       IN [k \in 1..Len(cs) |-> fetch(workPath(cs[k], fields), defaults)]
  ELSE <<fetch(workPath(pids, fields), defaults)>>

\* getWork of at most pidLimit pids: the promise, given the reply to its request
getWorkSingle_NoFilter(r) ==
  LET p == request(r)
  IN IF p.st # "fulfilled" THEN p
     ELSE IF p.value.t # "array" THEN Rejected(TypeError)
     ELSE p

getWorkSingle(r) ==
  LET p == request(r)
  IN IF p.st # "fulfilled" THEN p
     ELSE IF p.value.t # "array" THEN Rejected(TypeError)
     ELSE Fulfilled(Arr(SelectSeq(p.value.v, LAMBDA x : ~isEmpty(x))))

\* getWork: the promise, given the replies so far and their order of arrival
getWork_Partial(pids, replies, order) ==
  IF Len(pids) > pidLimit
  THEN LET ps == [k \in 1..Len(replies) |-> getWorkSingle(replies[k])]
       IN IF \E k \in 1..Len(ps) : ps[k].st = "pending" THEN Pending
          ELSE Fulfilled(Arr(Flatten([k \in 1..Len(ps) |->
                 IF ps[k].st = "fulfilled" THEN ps[k].value.v ELSE <<>>])))
  ELSE getWorkSingle(replies[1])

getWork(pids, replies, order) ==
  IF Len(pids) > pidLimit
  THEN LET all == PromiseAll([k \in 1..Len(replies) |-> getWorkSingle(replies[k])], order)
       IN IF all.st # "fulfilled" THEN all
          ELSE Fulfilled(Arr(Flatten([k \in 1..Len(all.value.v) |-> all.value.v[k].v])))
  ELSE getWorkSingle(replies[1])

Pid(i) == <<"b",":">> \o DigitsOf(i)

\* what the upstream may answer to a work request: a record per pid asked
\* for, an empty record for the pids it does not know, or a failure
WorkReplies(req) ==
  LET asked == ListOf(ParamOf(req.url, <<"p","i","d","s">>))
  IN {Ok(Arr([i \in 1..Len(asked) |-> Title(asked[i])])),
      Ok(Arr([i \in 1..Len(asked) |-> IF i % 2 = 1 THEN Obj(<<>>) ELSE Title(asked[i])])),
      Ok(Arr([i \in 1..Len(asked) |-> IF i % 3 = 0 THEN Null ELSE Title(asked[i])])),
      Ok(Arr(<<>>))}
     \cup FailureReplies

getWorkCall ==
  /\ call = Idle
  /\ \E n \in 0..MaxPids :
       LET pids == [i \in 1..n |-> Pid(i)]
           fields == << <<"t","i","t","l","e">> >>
       IN /\ call' = [fn |-> "getWork", pids |-> pids, fields |-> fields]
          /\ Issue(getWorkRequests(pids, fields))
  /\ result' = Pending
  /\ UNCHANGED checklist

getWorkReply ==
  /\ call.fn = "getWork"
  /\ \E i \in 1..Len(sent) : \E r \in WorkReplies(sent[i]) :
       /\ Answer(i, r)
       /\ result' = IF result.st # "pending" THEN result
                    ELSE getWork(call.pids, reply', arrived')
  /\ UNCHANGED call
  /\ UNCHANGED checklist

\* ---- getAvailability, canBeOrdered ----
availabilityPath(pids, fields) ==
  <<"a","v","a","i","l","a","b","i","l","i","t","y","?",
    "a","c","c","e","s","s","_","t","o","k","e","n","=">>
  \o getToken("library")
  \o <<"&","f","i","e","l","d","s","=">>
  \o join([i \in 1..Len(fields) |-> encodeURIComponent(fields[i])], <<",">>)
  \o <<"&","p","i","d","s","=">>
  \o formatUrlArray(pids)

availabilityFields ==
  << <<"e","x","p","e","c","t","e","d","D","e","l","i","v","e","r","y">>,
     <<"o","r","d","e","r","P","o","s","s","i","b","l","e">>,
     <<"w","i","l","l","L","e","n","d">> >>

\* getAvailability: the request it issues
getAvailability(pids) == fetch(availabilityPath(pids, availabilityFields), defaults)

\* canBeOrdered: the promise, given the reply to the availability request
canBeOrdered_Either(r) ==
  LET p == request(r)
  IN IF p.st # "fulfilled" THEN p
     ELSE IF p.value.t # "array" THEN Rejected(TypeError)
     ELSE Fulfilled(Bool(
            /\ \E i \in 1..Len(p.value.v) : Truthy(Get(p.value.v[i], "willLend"))
            /\ \E i \in 1..Len(p.value.v) : Truthy(Get(p.value.v[i], "orderPossible"))))

canBeOrdered(r) ==
  LET p == request(r)
  IN IF p.st # "fulfilled" THEN p
     ELSE IF p.value.t # "array" THEN Rejected(TypeError)
     ELSE Fulfilled(Bool(\E i \in 1..Len(p.value.v) :
            Truthy(Get(p.value.v[i], "willLend")) /\ Truthy(Get(p.value.v[i], "orderPossible"))))

Availability(willLend, orderPossible) ==
  Obj(<< <<"willLend", Bool(willLend)>>, <<"orderPossible", Bool(orderPossible)>> >>)

AvailabilityRecords ==
  {Availability(w, o) : w \in BOOLEAN, o \in BOOLEAN}
  \cup {Obj(<< <<"willLend", Bool(TRUE)>> >>)}

AvailabilityReplies ==
  {Ok(Arr(a)) : a \in SeqsUpTo(AvailabilityRecords, MaxAvail)} \cup FailureReplies

canBeOrderedCall ==
  /\ call = Idle
  /\ \E n \in 0..2 :
       LET pids == [i \in 1..n |-> Pid(i)]
       IN /\ call' = [fn |-> "canBeOrdered", pids |-> pids]
          /\ Issue(<<getAvailability(pids)>>)
  /\ result' = Pending
  /\ UNCHANGED checklist

canBeOrderedReply ==
  /\ call.fn = "canBeOrdered"
  /\ \E r \in AvailabilityReplies :
       /\ Answer(1, r)
       /\ result' = canBeOrdered(r)
  /\ UNCHANGED call
  /\ UNCHANGED checklist

\* ---- getLibraries, getBranch, getUser ----
librariesPath(agencyIds, branchIds) ==
  <<"l","i","b","r","a","r","i","e","s","?">>
  \o join(<< <<"a","c","c","e","s","s","_","t","o","k","e","n","=">> \o getToken("library") >>
          \o (IF Len(agencyIds) > 0
              THEN << <<"a","g","e","n","c","y","I","d","s","=">> \o formatUrlArray(agencyIds) >>
              ELSE <<>>)
          \o (IF Len(branchIds) > 0
              THEN << <<"b","r","a","n","c","h","I","d","s","=">> \o formatUrlArray(branchIds) >>
              ELSE <<>>),
          <<"&">>)

\* getLibraries: the request it issues
getLibraries(agencyIds, branchIds) == fetch(librariesPath(agencyIds, branchIds), defaults)

\* getBranch: the request it issues (encodeURIComponent makes a string of the id)
getBranchRequest(branchId) == getLibraries(<<>>, <<TemplateString(branchId)>>)

\* getBranch: the promise, given the reply to the libraries request
getBranch_NoCheck(r) ==
  LET p == request(r)
  IN IF p.st # "fulfilled" THEN p
     ELSE CASE p.value.t = "array" ->
                 IF Len(p.value.v) < 1 THEN Fulfilled(Undefined) ELSE Fulfilled(p.value.v[1])
            [] p.value.t = "string" -> Fulfilled(Str(<<p.value.v[1]>>))
            [] OTHER -> Fulfilled(Undefined)

getBranch(r) ==
  LET p == request(r)
  IN IF p.st # "fulfilled" THEN p
     ELSE CASE p.value.t = "array" ->
                 IF Len(p.value.v) < 1 THEN Rejected(Error(Str(BranchNotFound)))
                 ELSE Fulfilled(p.value.v[1])
            [] p.value.t = "string" -> Fulfilled(Str(<<p.value.v[1]>>))
            [] OTHER -> Fulfilled(Undefined)

\* getUser: the request it issues
getUser ==
  fetch(<<"u","s","e","r","?","a","c","c","e","s","s","_","t","o","k","e","n","=">>
        \o getToken("user"), defaults)

ParamNames ==
  { <<"u","s","e","r","I","d">>, <<"p","i","n","c","o","d","e">>, <<"n","a","m","e">>,
    <<"a","d","d","r","e","s","s">>, <<"e","m","a","i","l">>, <<"p","h","o","n","e">>,
    <<"f","a","x">> }

Branch(id, params) ==
  Obj(<< <<"branchId", Str(id)>>,
         <<"orderParameters", Arr([i \in 1..Len(params) |-> Str(params[i])])>> >>)

BranchReplies ==
  {Ok(Arr(<<Branch(<<"B","1">>, ps)>>)) : ps \in SeqsUpTo(ParamNames, MaxOrderParams)}
  \cup {Ok(Arr(<<>>)),
        Ok(Arr(<<Branch(<<"B","1">>, << <<"n","a","m","e">> >>), Branch(<<"B","2">>, <<>>)>>)),
        Ok(Arr(<<Obj(<< <<"branchId", Str(<<"B","1">>)>> >>)>>))}
  \cup FailureReplies

BranchIds == {Null, Str(<<"B","1">>)}

getBranchCall ==
  /\ call = Idle
  /\ \E branchId \in BranchIds :
       /\ call' = [fn |-> "getBranch", branchId |-> branchId]
       /\ Issue(<<getBranchRequest(branchId)>>)
  /\ result' = Pending
  /\ UNCHANGED checklist

getBranchReply ==
  /\ call.fn = "getBranch"
  /\ \E r \in BranchReplies :
       /\ Answer(1, r)
       /\ result' = getBranch(r)
  /\ UNCHANGED call
  /\ UNCHANGED checklist

\* ---- orderMaterial ----
\* JSON.stringify of an object: a property whose value is undefined is left out
JSONstringify(o) == Obj(SelectSeq(o.v, LAMBDA e : e[2] # Undefined))

\* the URL parameters and the body before the lookups
orderBase(pids, pickupBranch, expires) ==
  [parameters |->
     << <<"a","c","c","e","s","s","_","t","o","k","e","n","=">> \o getToken("user"),
        <<"o","r","d","e","r","T","y","p","e","=","n","o","r","m","a","l">>,
        <<"e","x","p","i","r","e","s","=">> \o TemplateString(expires),
        <<"p","i","c","k","U","p","B","r","a","n","c","h","=","\"">>
          \o TemplateString(pickupBranch) \o <<"\"">>,
        <<"p","i","d","s","=">> \o formatUrlArray(pids) >>,
   body |->
     Obj(<< <<"orderType", Str(<<"n","o","r","m","a","l">>)>>,
            <<"expires", expires>>,
            <<"pickUpBranch", pickupBranch>>,
            <<"pids", Arr([i \in 1..Len(pids) |-> Str(pids[i])])>> >>)]

PhonePlaceholder == <<"1","2","3","4","5","6","7","8">>

constructOrderParameter_DefaultAddsIt(acc, parameter, user) ==
  CASE parameter \in {Str(<<"u","s","e","r","I","d">>), Str(<<"p","i","n","c","o","d","e">>)} ->
         acc
    [] parameter = Str(<<"n","a","m","e">>) ->
         [parameters |-> Append(acc.parameters,
                                <<"n","a","m","e","=">> \o TemplateString(Get(user, "name"))),
          body |-> Set(acc.body, "name", Get(user, "name"))]
    [] parameter = Str(<<"a","d","d","r","e","s","s">>) ->
         [parameters |-> Append(acc.parameters,
                                <<"a","d","d","r","e","s","s","=">>
                                \o TemplateString(Get(user, "address"))),
          body |-> Set(acc.body, "address", Get(user, "address"))]
    [] parameter = Str(<<"e","m","a","i","l">>) ->
         [parameters |-> Append(acc.parameters,
                                <<"e","m","a","i","l","=">> \o TemplateString(Get(user, "mail"))),
          body |-> Set(acc.body, "email", Get(user, "mail"))]
    [] parameter = Str(<<"p","h","o","n","e">>) ->
         [parameters |-> Append(acc.parameters, <<"p","h","o","n","e","=">> \o PhonePlaceholder),
          body |-> Set(acc.body, "phone", Str(PhonePlaceholder))]
    [] OTHER ->
         [parameters |-> Append(acc.parameters, <<"f","a","x","=">> \o PhonePlaceholder),
          body |-> Set(acc.body, "fax", Str(PhonePlaceholder))]

\* the switch on the parameter's name
constructOrderParameter(acc, parameter, user) ==
  CASE parameter \in {Str(<<"u","s","e","r","I","d">>), Str(<<"p","i","n","c","o","d","e">>)} ->
         acc
    [] parameter = Str(<<"n","a","m","e">>) ->
         [parameters |-> Append(acc.parameters,
                                <<"n","a","m","e","=">> \o TemplateString(Get(user, "name"))),
          body |-> Set(acc.body, "name", Get(user, "name"))]
    [] parameter = Str(<<"a","d","d","r","e","s","s">>) ->
         [parameters |-> Append(acc.parameters,
                                <<"a","d","d","r","e","s","s","=">>
                                \o TemplateString(Get(user, "address"))),
          body |-> Set(acc.body, "address", Get(user, "address"))]
    [] parameter = Str(<<"e","m","a","i","l">>) ->
         [parameters |-> Append(acc.parameters,
                                <<"e","m","a","i","l","=">> \o TemplateString(Get(user, "mail"))),
          body |-> Set(acc.body, "email", Get(user, "mail"))]
    [] parameter = Str(<<"p","h","o","n","e">>) ->
         [parameters |-> Append(acc.parameters, <<"p","h","o","n","e","=">> \o PhonePlaceholder),
          body |-> Set(acc.body, "phone", Str(PhonePlaceholder))]
    [] OTHER -> acc

\* branch.orderParameters.forEach(constructOrderParameter)
RECURSIVE forEachOrderParameter(_, _, _)
forEachOrderParameter(acc, params, user) ==
  IF params = <<>> THEN acc
  ELSE forEachOrderParameter(constructOrderParameter(acc, Head(params), user),
                             Tail(params), user)

\* the POST of orderMaterial, given the user and the branch looked up
orderRequest(pids, pickupBranch, expires, user, branch) ==
  LET final == forEachOrderParameter(orderBase(pids, pickupBranch, expires),
                                     Get(branch, "orderParameters").v, user)
  IN fetch(<<"o","r","d","e","r","?">> \o join(final.parameters, <<"&">>),
           [method  |-> "POST",
            headers |-> {<<"Accept", "application/json">>,
                         <<"Content-Type", "application/json">>},
            body    |-> JSONstringify(final.body)])

\* the requests orderMaterial issues before it first waits
orderLookups_UserFirst(pickupBranch) == <<getUser>>

orderLookups(pickupBranch) == <<getUser, getBranchRequest(pickupBranch)>>

\* Promise.all([this.getUser(), this.getBranch(pickupBranch)])
orderLookupsPromise(replies, order) ==
  PromiseAll(<<request(replies[1]), getBranch(replies[2])>>, order)

User(name, address, mail) ==
  Obj(<< <<"name", Str(name)>>, <<"address", Str(address)>>, <<"mail", Str(mail)>> >>)

Users ==
  {User(<<"A","l">>, <<"R","d"," ","1">>, <<"a","@","b",".","d","k">>),
   User(<<"A","&","B">>, <<"R","d"," ","2">>, <<"c","@","d",".","d","k">>)}

UserReplies == {Ok(u) : u \in Users} \cup FailureReplies

OrderReplies == {Ok(Obj(<< <<"status", Str(<<"o","k">>)>> >>))} \cup FailureReplies

OrderInputs ==
  {[pids |-> <<>>, pickupBranch |-> Null, expires |-> Null],
   [pids |-> <<Pid(1)>>, pickupBranch |-> Str(<<"B","1">>),
    expires |-> Str(<<"2","0","2","0","-","0","1","-","3","1">>)],
   [pids |-> <<Pid(1), Pid(2)>>, pickupBranch |-> Str(<<"B","1">>), expires |-> Null]}

orderMaterialCall ==
  /\ call = Idle
  /\ \E in \in OrderInputs :
       /\ call' = [fn |-> "orderMaterial", pids |-> in.pids,
                   pickupBranch |-> in.pickupBranch, expires |-> in.expires]
       /\ Issue(orderLookups(in.pickupBranch))
  /\ result' = Pending
  /\ UNCHANGED checklist

\* the reply to a lookup arrives; when both lookups are in and good, the
\* order parameters are built and the POST is issued
orderMaterialLookupReply ==
  /\ call.fn = "orderMaterial"
  /\ \E i \in 1..2 : \E r \in (IF i = 1 THEN UserReplies ELSE BranchReplies) :
       /\ i <= Len(sent)
       /\ reply[i] = NoReply
       /\ arrived' = Append(arrived, i)
       /\ LET replies == [reply EXCEPT ![i] = r]
              all == orderLookupsPromise(
                       [k \in 1..2 |-> IF k <= Len(replies) THEN replies[k] ELSE NoReply],
                       arrived')
          IN CASE result.st # "pending" \/ all.st = "pending" ->
                    /\ reply' = replies
                    /\ UNCHANGED <<sent, result>>
               [] result.st = "pending" /\ all.st = "rejected" ->
                    /\ reply' = replies
                    /\ result' = all
                    /\ UNCHANGED sent
               [] result.st = "pending" /\ all.st = "fulfilled" ->
                    LET user == all.value.v[1]
                        branch == all.value.v[2]
                    IN IF Get(branch, "orderParameters").t # "array"
                       THEN /\ reply' = replies
                            /\ result' = Rejected(TypeError)
                            /\ UNCHANGED sent
                       ELSE /\ sent' = Append(sent, orderRequest(call.pids, call.pickupBranch,
                                                                call.expires, user, branch))
                            /\ reply' = Append(replies, NoReply)
                            /\ UNCHANGED result
  /\ UNCHANGED call
  /\ UNCHANGED checklist

orderMaterialOrderReply ==
  /\ call.fn = "orderMaterial"
  /\ Len(sent) = 3
  /\ \E r \in OrderReplies :
       /\ Answer(3, r)
       /\ result' = IF result.st # "pending" THEN result ELSE request(r)
  /\ UNCHANGED call
  /\ UNCHANGED checklist

Next ==
  \/ formatUrlArrayCall
  \/ orderMaterialCall
  \/ orderMaterialLookupReply
  \/ orderMaterialOrderReply
  \/ canBeOrderedCall
  \/ canBeOrderedReply
  \/ getBranchCall
  \/ getBranchReply
  \/ requestCall
  \/ requestReply
  \/ getWorkCall
  \/ getWorkReply
  \/ Reset

Spec == Init /\ [][Next]_vars

(***************************************************************************)
(* ChecklistEntry.  Material ids are numbers.  A handler runs to its end    *)
(* before the next event is taken, and a state change is rendered before   *)
(* the next event, so onRemove always closes over the list on display.     *)
(***************************************************************************)
\* the lists getList may resolve with
Lists == {[i \in 1..n |-> i] : n \in 0..MaxListItems}

\* the effect of the first render: setLoading("active"), client.getList()
getList ==
  /\ loading = "inactive"
  /\ loading' = "active"
  /\ UNCHANGED <<list, loaded, removals, timers>>
  /\ UNCHANGED client

\* getList resolved: onResult, then onEnd
onResult ==
  /\ loading = "active"
  /\ \E r \in Lists :
       /\ list' = r
       /\ loaded' = r
  /\ loading' = "finished"
  /\ UNCHANGED <<removals, timers>>
  /\ UNCHANGED client

\* getList rejected: onError of the effect, then onEnd
onError ==
  /\ loading = "active"
  /\ list' = <<>>
  /\ loaded' = <<>>
  /\ loading' = "finished"
  /\ UNCHANGED <<removals, timers>>
  /\ UNCHANGED client

\* list.filter(item => item !== materialId)
removeMaterial(items, materialId) == SelectSeq(items, LAMBDA item : item # materialId)

\* onRemove(materialId), for an item on display: the fallback is the list on
\* display, the item is taken off it, and deleteListMaterial is called
onRemove ==
  /\ Len(removals) < MaxRemoves
  /\ \E k \in 1..Len(list) :
       LET materialId == list[k]
       IN /\ removals' = Append(removals, [materialId |-> materialId,
                                           fallbackList |-> list,
                                           st |-> "pending"])
          /\ list' = removeMaterial(list, materialId)
  /\ UNCHANGED <<loading, loaded, timers>>
  /\ UNCHANGED client

\* a deleteListMaterial call resolved: nothing is done
deleteResolved ==
  /\ \E i \in 1..Len(removals) :
       /\ removals[i].st = "pending"
       /\ removals' = [removals EXCEPT ![i].st = "deleted"]
  /\ UNCHANGED <<list, loading, loaded, timers>>
  /\ UNCHANGED client

\* a deleteListMaterial call rejected: onError sets the 2000 ms timer
deleteRejected ==
  /\ \E i \in 1..Len(removals) :
       /\ removals[i].st = "pending"
       /\ removals' = [removals EXCEPT ![i].st = "failed"]
       /\ timers' = Append(timers, i)
  /\ UNCHANGED <<list, loading, loaded>>
  /\ UNCHANGED client

\* the oldest timer fires (equal delays fire in the order they were set):
\* setList(fallbackList)
onRestore ==
  /\ timers # <<>>
  /\ list' = removals[Head(timers)].fallbackList
  /\ removals' = [removals EXCEPT ![Head(timers)].st = "restored"]
  /\ timers' = Tail(timers)
  /\ UNCHANGED <<loading, loaded>>
  /\ UNCHANGED client

ChecklistNext ==
  \/ getList
  \/ onResult
  \/ onError
  \/ onRemove
  \/ deleteResolved
  \/ deleteRejected
  \/ onRestore

SpecChecklist == Init /\ [][ChecklistNext]_vars

(***************************************************************************)
(* Properties.                                                             *)
(***************************************************************************)
\* the values JavaScript's ! turns into true
Falsy == {Undefined, Null, Bool(FALSE), Num(0), Str(<<>>)}

\* the message request() reports for an upstream error field
UpstreamMessage(env) == IF HasKey(env, "error") THEN Get(env, "error").v ELSE <<>>

RequestAnswered == call.fn = "request" /\ arrived = <<1>> /\ reply[1].kind = "json"

\* C1 as stated: request() fails with the upstream error when statusCode is
\* not 200, fails with "data not found" when statusCode is 200 and data is
\* absent (missing or null), and in every other case returns the envelope's
\* data unchanged.
C1_AsStated ==
  RequestAnswered =>
    LET env == reply[1].env
    IN IF Get(env, "statusCode") # Num(200)
       THEN result.st = "rejected" /\ result.reason.message = UpstreamMessage(env)
       ELSE IF ~HasKey(env, "data") \/ Get(env, "data") = Null
       THEN result.st = "rejected" /\ result.reason.message = DataNotFound
       ELSE result = Fulfilled(Get(env, "data"))

\* C1, amended: request() fails with the upstream error when statusCode is
\* not 200 (even if data is present), fails with "data not found" when
\* statusCode is 200 and data is absent or falsy (null, false, 0 or the empty
\* string), and in every other case returns the envelope's data unchanged.
C1_RequestClassifies ==
  RequestAnswered =>
    LET env == reply[1].env
    IN IF Get(env, "statusCode") # Num(200)
       THEN result.st = "rejected" /\ result.reason.message = UpstreamMessage(env)
       ELSE IF ~HasKey(env, "data") \/ Get(env, "data") \in Falsy
       THEN result.st = "rejected" /\ result.reason.message = DataNotFound
       ELSE result = Fulfilled(Get(env, "data"))

\* a 404 envelope that carries data all the same was rejected with the
\* upstream's message
C1_Witness ==
  /\ RequestAnswered
  /\ reply[1].env = Envelope(Num(404), Str(NotFound), Arr(<<Title(<<"A">>)>>))
  /\ result = Rejected([name |-> "Error", message |-> NotFound])

CountOf(s, c) == Cardinality({i \in 1..Len(s) : s[i] = c})

\* C8: formatUrlArray returns the percent-encoded items joined by commas and
\* one trailing comma: "," for the empty list, and otherwise a string that
\* ends with a comma, holds as many commas as items, and whose parts between
\* the commas decode to the items.
C8_FormatUrlArray ==
  call.fn = "formatUrlArray" =>
    LET out == result.value.v
        n == Len(call.items)
    IN /\ result.st = "returned"
       /\ Len(out) >= 1 /\ out[Len(out)] = ","
       /\ CountOf(out, ",") = IF n > 1 THEN n ELSE 1
       /\ n = 0 => out = <<",">>
       /\ n >= 1 =>
            LET parts == Split(SubSeq(out, 1, Len(out) - 1), ",")
            IN /\ Len(parts) = n
               /\ \A i \in 1..n : decodeURIComponent(parts[i]) = call.items[i]
               /\ \A i \in 1..n : \A j \in 1..Len(parts[i]) :
                    parts[i][j] \in Unreserved \cup {"%"}

\* two items, one of them a comma, came out as "%2C,a%3A,"
C8_Witness ==
  /\ call.fn = "formatUrlArray"
  /\ call.items = << <<",">>, <<"a",":">> >>
  /\ result = Returned(Str(<<"%","2","C",",","a","%","3","A",",">>))

Chunked == call.fn = "getWork" /\ Len(call.pids) > 20

PidsAskedFor(k) == ListOf(ParamOf(sent[k].url, <<"p","i","d","s">>))

\* the reply to request k is in and is a failure
Failed(k) ==
  /\ reply[k] # NoReply
  /\ \/ reply[k].kind # "json"
     \/ Get(reply[k].env, "statusCode") # Num(200)
     \/ ~HasKey(reply[k].env, "data")

Succeeded(k) == reply[k] # NoReply /\ ~Failed(k)

\* C2: for more than 20 pids getWork issues ceil(n/20) requests, request k
\* carrying the k-th run of at most 20 consecutive pids, and whatever the
\* order of arrival the list returned is the chunks' results in chunk order.
C2_ChunkedGetWork ==
  Chunked =>
    LET n == Len(call.pids)
    IN /\ Len(sent) = (n + 19) \div 20
       /\ \A k \in 1..Len(sent) :
            LET asked == PidsAskedFor(k)
            IN /\ Len(asked) >= 1 /\ Len(asked) <= 20
               /\ (k < Len(sent) => Len(asked) = 20)
               /\ asked = SubSeq(call.pids, 20 * (k - 1) + 1, 20 * (k - 1) + Len(asked))
               /\ (k = Len(sent) => 20 * (k - 1) + Len(asked) = n)
       /\ (\A k \in 1..Len(sent) : Succeeded(k)) =>
            result = Fulfilled(Arr(Flatten([k \in 1..Len(sent) |->
                                     getWorkSingle(reply[k]).value.v])))

\* three chunks answered last chunk first, and a non-empty list returned
C2_Witness ==
  /\ Chunked
  /\ arrived = <<3, 1, 2>>
  /\ result.st = "fulfilled"
  /\ Len(result.value.v) = Len(call.pids)

\* C3: once a chunk request of a chunked getWork has failed, the call has
\* failed: no list is returned, whatever the other chunks do, and the number
\* of requests stays the number of chunks.
C3_NoPartialResult ==
  (Chunked /\ \E k \in 1..Len(sent) : Failed(k)) =>
    /\ result.st = "rejected"
    /\ Len(sent) = (Len(call.pids) + 19) \div 20
    /\ \A j, k \in 1..Len(sent) : j # k => sent[j] # sent[k]

\* the second of three chunks failed, the other two succeeded
C3_Witness ==
  /\ Chunked
  /\ Len(sent) = 3
  /\ Succeeded(1) /\ Failed(2) /\ Succeeded(3)
  /\ arrived = <<1, 3, 2>>
  /\ result.st = "rejected"

NonEmptyRecord(x) == x.t = "object" /\ x.v # <<>>

\* C9: the list getWork returns holds no empty record: it is the upstream's
\* non-empty records in the upstream's order, on both paths.
C9_NoEmptyRecords ==
  (call.fn = "getWork" /\ result.st = "fulfilled") =>
    /\ \A i \in 1..Len(result.value.v) : NonEmptyRecord(result.value.v[i])
    /\ result.value.v =
         Flatten([k \in 1..Len(sent) |->
                   SelectSeq(Get(reply[k].env, "data").v, NonEmptyRecord)])

\* two pids asked for, an empty record and a work came back, the work alone
\* was returned
C9_Witness ==
  /\ call.fn = "getWork"
  /\ Len(call.pids) = 2
  /\ arrived = <<1>>
  /\ reply[1].kind = "json"
  /\ Get(reply[1].env, "data") = Arr(<<Obj(<<>>), Title(Pid(2))>>)
  /\ result = Fulfilled(Arr(<<Title(Pid(2))>>))

CanBeOrderedAnswered ==
  /\ call.fn = "canBeOrdered"
  /\ arrived = <<1>>
  /\ Succeeded(1)
  /\ Get(reply[1].env, "data").t = "array"

\* C4: canBeOrdered returns true exactly when one availability record has
\* both willLend and orderPossible true, and false (no failure) otherwise:
\* for the empty list, and when the two are true on different records only.
C4_CanBeOrdered ==
  CanBeOrderedAnswered =>
    LET recs == Get(reply[1].env, "data").v
    IN result = Fulfilled(Bool(\E i \in 1..Len(recs) :
                  /\ Get(recs[i], "willLend") = Bool(TRUE)
                  /\ Get(recs[i], "orderPossible") = Bool(TRUE)))

\* willLend on one record, orderPossible on another: false
C4_Witness ==
  /\ CanBeOrderedAnswered
  /\ Get(reply[1].env, "data") = Arr(<<Availability(TRUE, FALSE), Availability(FALSE, TRUE)>>)
  /\ result = Fulfilled(Bool(FALSE))

\* C7: getBranch fails with "branch not found" when the libraries list is
\* empty, returns the list's first record otherwise, and passes a failure of
\* the libraries request on as it is.
C7_GetBranch ==
  (call.fn = "getBranch" /\ arrived = <<1>>) =>
    IF Failed(1)
    THEN /\ result.st = "rejected"
         /\ result.reason.message # BranchNotFound
         /\ result.reason.message =
              (CASE reply[1].kind = "network" -> NetworkError.message
                 [] reply[1].kind = "malformed" -> SyntaxError.message
                 [] Get(reply[1].env, "statusCode") # Num(200) -> UpstreamMessage(reply[1].env)
                 [] OTHER -> DataNotFound)
    ELSE LET branches == Get(reply[1].env, "data").v
         IN IF Len(branches) = 0
            THEN result = Rejected([name |-> "Error", message |-> BranchNotFound])
            ELSE result = Fulfilled(branches[1])

\* the upstream knew no such branch
C7_Witness ==
  /\ call.fn = "getBranch"
  /\ call.branchId = Str(<<"B","1">>)
  /\ arrived = <<1>>
  /\ reply[1] = Ok(Arr(<<>>))
  /\ result = Rejected([name |-> "Error", message |-> BranchNotFound])

\* s holds sub as a run of consecutive characters
HasSub(s, sub) ==
  \E i \in 0..(Len(s) - Len(sub)) : SubSeq(s, i + 1, i + Len(sub)) = sub

\* the query string holds text as one of the pieces joined by "&"
HasPiece(url, text) == HasSub(<<"&">> \o QueryOf(url) \o <<"&">>, <<"&">> \o text \o <<"&">>)

\* both lookups of orderMaterial were answered with data the order can be built from
LookupsGood ==
  /\ Len(reply) >= 2
  /\ Succeeded(1) /\ Succeeded(2)
  /\ Get(reply[2].env, "data").t = "array"
  /\ Get(reply[2].env, "data").v # <<>>
  /\ Get(Get(reply[2].env, "data").v[1], "orderParameters").t = "array"

PostIssued == call.fn = "orderMaterial" /\ Len(sent) = 3

LookedUpUser == Get(reply[1].env, "data")

Listed(name) ==
  LET ps == Get(Get(reply[2].env, "data").v[1], "orderParameters").v
  IN \E i \in 1..Len(ps) : ps[i] = Str(name)

\* C5: the order request carries name, address and email exactly when the
\* branch lists them, with the user's name, address and mail; phone, as
\* 12345678, exactly when the branch lists phone; never userId or pincode;
\* and a name the client does not know adds nothing and fails nothing.
C5_OrderParameters ==
  /\ (call.fn = "orderMaterial" /\ LookupsGood) => PostIssued
  /\ PostIssued =>
       LET url == sent[3].url
           body == sent[3].body
           u == LookedUpUser
       IN /\ HasKey(body, "name") <=> Listed(<<"n","a","m","e">>)
          /\ HasKey(body, "name") => Get(body, "name") = Get(u, "name")
          /\ HasPiece(url, <<"n","a","m","e","=">> \o Get(u, "name").v)
               <=> Listed(<<"n","a","m","e">>)
          /\ HasKey(body, "address") <=> Listed(<<"a","d","d","r","e","s","s">>)
          /\ HasKey(body, "address") => Get(body, "address") = Get(u, "address")
          /\ HasPiece(url, <<"a","d","d","r","e","s","s","=">> \o Get(u, "address").v)
               <=> Listed(<<"a","d","d","r","e","s","s">>)
          /\ HasKey(body, "email") <=> Listed(<<"e","m","a","i","l">>)
          /\ HasKey(body, "email") => Get(body, "email") = Get(u, "mail")
          /\ HasPiece(url, <<"e","m","a","i","l","=">> \o Get(u, "mail").v)
               <=> Listed(<<"e","m","a","i","l">>)
          /\ HasKey(body, "phone") <=> Listed(<<"p","h","o","n","e">>)
          /\ HasKey(body, "phone") => Get(body, "phone") = Str(<<"1","2","3","4","5","6","7","8">>)
          /\ HasPiece(url, <<"p","h","o","n","e","=","1","2","3","4","5","6","7","8">>)
               <=> Listed(<<"p","h","o","n","e">>)
          /\ \A i \in 1..Len(body.v) :
               body.v[i][1] \in {"orderType", "expires", "pickUpBranch", "pids",
                                 "name", "address", "email", "phone"}
          /\ ~HasSub(url, <<"u","s","e","r","I","d","=">>)
          /\ ~HasSub(url, <<"p","i","n","c","o","d","e","=">>)
          /\ ~HasSub(url, <<"f","a","x","=">>)

\* the branch asked for fax (unknown to the client) and name: the order went
\* out with the user's name and nothing for fax
C5_Witness ==
  /\ PostIssued
  /\ Listed(<<"f","a","x">>) /\ Listed(<<"n","a","m","e">>)
  /\ Get(sent[3].body, "name") = Str(<<"A","l">>)
  /\ ~HasKey(sent[3].body, "fax")

StartsWith(s, prefix) == Len(s) >= Len(prefix) /\ SubSeq(s, 1, Len(prefix)) = prefix

\* a lookup of orderMaterial was answered and the answer is no user, or no branch
LookupFailed(k) ==
  /\ k <= Len(reply)
  /\ \/ Failed(k)
     \/ /\ k = 2
        /\ Succeeded(2)
        /\ Get(reply[2].env, "data") = Arr(<<>>)

\* C6: orderMaterial issues the user lookup and the branch lookup before it
\* waits for either; the POST goes out only after both have succeeded; when
\* one of them fails (an empty branch list included) orderMaterial fails and
\* no POST is issued.
C6_LookupsThenOrder ==
  call.fn = "orderMaterial" =>
    /\ Len(sent) \in {2, 3}
    /\ sent[1].method = "GET"
    /\ StartsWith(sent[1].url, baseUrl \o <<"/","u","s","e","r","?">>)
    /\ sent[2].method = "GET"
    /\ StartsWith(sent[2].url, baseUrl \o <<"/","l","i","b","r","a","r","i","e","s","?">>)
    /\ HasParam(sent[2].url, <<"b","r","a","n","c","h","I","d","s">>)
    /\ Len(sent) = 3 =>
         /\ sent[3].method = "POST"
         /\ StartsWith(sent[3].url, baseUrl \o <<"/","o","r","d","e","r","?">>)
         /\ Succeeded(1) /\ Succeeded(2) /\ ~LookupFailed(2)
    /\ (LookupFailed(1) \/ LookupFailed(2)) =>
         /\ result.st = "rejected"
         /\ Len(sent) = 2

\* the user was found, then the branch list came back empty: failed, no POST
C6_Witness ==
  /\ call.fn = "orderMaterial"
  /\ arrived = <<1, 2>>
  /\ Succeeded(1)
  /\ reply[2] = Ok(Arr(<<>>))
  /\ result = Rejected([name |-> "Error", message |-> BranchNotFound])
  /\ Len(sent) = 2

\* the name of a body field as it is written in the URL
KeyChars(k) ==
  CASE k = "orderType"    -> <<"o","r","d","e","r","T","y","p","e">>
    [] k = "expires"      -> <<"e","x","p","i","r","e","s">>
    [] k = "pickUpBranch" -> <<"p","i","c","k","U","p","B","r","a","n","c","h">>
    [] k = "pids"         -> <<"p","i","d","s">>
    [] k = "name"         -> <<"n","a","m","e">>
    [] k = "address"      -> <<"a","d","d","r","e","s","s">>
    [] k = "email"        -> <<"e","m","a","i","l">>
    [] k = "phone"        -> <<"p","h","o","n","e">>

Unquoted(raw) ==
  IF Len(raw) >= 2 /\ raw[1] = "\"" /\ raw[Len(raw)] = "\""
  THEN SubSeq(raw, 2, Len(raw) - 1)
  ELSE raw

\* the raw URL value reads as the body value x: a list between commas, null
\* as the word null, a string as itself, quoted or not
Reads(raw, x) ==
  CASE x.t = "array"  -> ListOf(raw) = [i \in 1..Len(x.v) |-> x.v[i].v]
    [] x.t = "null"   -> Unquoted(raw) = <<"n","u","l","l">>
    [] x.t = "string" -> decodeURIComponent(Unquoted(raw)) = x.v
    [] OTHER          -> FALSE

\* C10: in the order request every field of the body is a URL parameter with
\* the same value, and access_token is the only URL parameter the body lacks.
C10_UrlCarriesBody ==
  PostIssued =>
    LET url == sent[3].url
        body == sent[3].body
        ps == ParamsOf(url)
    IN /\ \A i \in 1..Len(body.v) :
            /\ HasParam(url, KeyChars(body.v[i][1]))
            /\ Reads(ParamOf(url, KeyChars(body.v[i][1])), body.v[i][2])
       /\ \A j \in 1..Len(ps) :
            \/ ps[j][1] = <<"a","c","c","e","s","s","_","t","o","k","e","n">>
            \/ \E i \in 1..Len(body.v) : KeyChars(body.v[i][1]) = ps[j][1]

\* the same, for the users whose name, address and mail hold no "&"
C10_UrlCarriesBody_PlainUser ==
  (PostIssued /\ \A k \in {"name", "address", "mail"} : FirstIndex(Get(LookedUpUser, k).v, "&") = 0)
    => C10_UrlCarriesBody

\* every deleteListMaterial has settled and every timer has fired
Settled ==
  /\ loading = "finished"
  /\ timers = <<>>
  /\ \A i \in 1..Len(removals) : removals[i].st \in {"deleted", "restored"}

\* the items whose deletion succeeded
Deleted == {removals[i].materialId : i \in {j \in 1..Len(removals) : removals[j].st = "deleted"}}

\* C11: once every deleteListMaterial has settled and every rollback has
\* fired, the list on display is the loaded list without exactly the items
\* whose deletion succeeded.
C11_RollbackExact ==
  Settled => list = SelectSeq(loaded, LAMBDA item : item \notin Deleted)

\* the same, for a ChecklistEntry on which onRemove was called at most once
C11_RollbackExact_OneRemoval ==
  Len(removals) <= 1 => C11_RollbackExact

====
